---- MODULE Spec2Model ----
(***************************************************************************)
(* MPDParser (youtube_dl/extractor/mpdparser.py): the resolution of a DASH *)
(* manifest into format descriptors, as a state machine over the           *)
(* Period -> AdaptationSet -> Representation walk of MPDParser.parse.      *)
(*                                                                         *)
(* Conventions.  A Python string is a sequence of one-character strings.   *)
(* A value that may be None is None (the empty tuple) or Some(v) (a        *)
(* one-element tuple).  A Python dict is a function whose DOMAIN is its    *)
(* set of keys.  A float is an exact fraction <<num, den>> in lowest       *)
(* terms.  A computation that may raise returns a record whose err field   *)
(* is "none" or the name of the exception.                                 *)
(***************************************************************************)
EXTENDS Integers, Sequences, FiniteSets, TLC

----------------------------------------------------------------------------
(* Optional values and dicts *)

None == <<>>
Some(v) == <<v>>
IsNone(o) == o = <<>>
Val(o) == o[1]

Has(dict, k) == k \in DOMAIN dict
Put(dict, k, v) == [x \in (DOMAIN dict) \cup {k} |-> IF x = k THEN v ELSE dict[x]]
\* dict.update(other): the keys of both, other's value where both define one
Update(dict, other) ==
    [x \in (DOMAIN dict) \cup (DOMAIN other) |->
        IF x \in DOMAIN other THEN other[x] ELSE dict[x]]
EmptyDict == [x \in {} |-> None]

Ok(v) == [err |-> "none", val |-> v]
Raise(e) == [err |-> e, val |-> None]
\* the statements K after the computation x, unless x raised
Try(x, K(_)) == IF x.err # "none" THEN x ELSE K(x.val)

----------------------------------------------------------------------------
(* Strings *)

HTTP == <<"h", "t", "t", "p", ":", "/", "/">>
HTTPS == <<"h", "t", "t", "p", "s", ":", "/", "/">>

StartsWith(s, p) == Len(s) >= Len(p) /\ SubSeq(s, 1, Len(p)) = p
EndsWith(s, p) == Len(s) >= Len(p) /\ SubSeq(s, Len(s) - Len(p) + 1, Len(s)) = p
\* x in s, for strings
Contains(s, x) == \E i \in 1..(Len(s) - Len(x) + 1) : SubSeq(s, i, i + Len(x) - 1) = x

\* re.match(r'^https?://', s)
IsHttp(s) == StartsWith(s, HTTP) \/ StartsWith(s, HTTPS)

\* MPDParser.location_key
LocationKey(location) == IF IsHttp(location) THEN "url" ELSE "path"

----------------------------------------------------------------------------
(* Numbers *)

RECURSIVE GCD(_, _)
GCD(a, b) == IF b = 0 THEN a ELSE GCD(b, a % b)

\* The float n/d, d > 0, n >= 0
Frac(n, d) == LET g == GCD(n, d) IN IF n = 0 THEN <<0, 1>> ELSE <<n \div g, d \div g>>

\* utils.float_or_none(v, scale): None for None, else float(v) / scale
FloatOrNone(v, scale) ==
    IF IsNone(v) THEN Ok(None)
    ELSE IF scale = 0 THEN Raise("ZeroDivisionError")
    ELSE Ok(Some(Frac(Val(v), scale)))

\* CeilDiv with the quotient rounded down
CeilDivFloor(x, q) ==
    IF q[1] = 0 THEN Raise("ZeroDivisionError")
    ELSE Ok((x * q[2]) \div q[1])

\* int(math.ceil(float(x) / q)) for an integer x >= 0 and a fraction q
CeilDiv(x, q) ==
    IF q[1] = 0 THEN Raise("ZeroDivisionError")
    ELSE Ok((x * q[2] + q[1] - 1) \div q[1])

\* str(n) for n >= 0
RECURSIVE Decimal(_)
Decimal(n) ==
    LET digit == <<"0", "1", "2", "3", "4", "5", "6", "7", "8", "9">>[(n % 10) + 1]
    IN IF n < 10 THEN <<digit>> ELSE Decimal(n \div 10) \o <<digit>>

----------------------------------------------------------------------------
(* MultisegmentInfoResolver *)

\* An S element: its attributes t, d and r, each None when absent.
\* A SegmentList or SegmentTemplate element ("source"):
\*   SegmentTimeline  None, or Some(the sequence of its S children)
\*   startNumber, timescale, duration   the attribute (parsed), or None
\*   Initialization   None, or Some(sourceURL) of the Initialization child
\*   SegmentURL       the media attributes of the SegmentURL children
\*   media, initialization   the attribute, or None

\* TimelineFold with total_number counting the repeats alone
RECURSIVE TimelineFoldRepeats(_, _, _)
TimelineFoldRepeats(s_e, total_number, s) ==
    IF s_e = <<>> THEN Ok([total_number |-> total_number, s |-> s])
    ELSE LET e == Head(s_e)
             r == IF IsNone(e.r) THEN 0 ELSE Val(e.r)
         IN IF IsNone(e.d) THEN Raise("KeyError")
            ELSE TimelineFoldRepeats(Tail(s_e), total_number + r,
                     Append(s, [t |-> IF IsNone(e.t) THEN 0 ELSE Val(e.t),
                                d |-> Val(e.d),
                                r |-> r]))

\* the loop of extract_common over the S elements: total_number and s
RECURSIVE TimelineFold(_, _, _)
TimelineFold(s_e, total_number, s) ==
    IF s_e = <<>> THEN Ok([total_number |-> total_number, s |-> s])
    ELSE LET e == Head(s_e)
             r == IF IsNone(e.r) THEN 0 ELSE Val(e.r)
         IN IF IsNone(e.d) THEN Raise("KeyError")
            ELSE TimelineFold(Tail(s_e), total_number + 1 + r,
                     Append(s, [t |-> IF IsNone(e.t) THEN 0 ELSE Val(e.t),
                                d |-> Val(e.d),
                                r |-> r]))

SetIfPresent(ms_info, key, attr) ==
    IF IsNone(attr) THEN ms_info ELSE Put(ms_info, key, Val(attr))

\* lines 41-55: None, or Some(total_number and s) of a SegmentTimeline with S children
Timeline(source) ==
    IF ~IsNone(source.SegmentTimeline) /\ Val(source.SegmentTimeline) # <<>>
    THEN Try(TimelineFold(Val(source.SegmentTimeline), 0, <<>>), LAMBDA tl : Ok(Some(tl)))
    ELSE Ok(None)

WithTimeline(ms_info, tl) ==
    IF IsNone(tl) THEN ms_info
    ELSE Put(Put(ms_info, "total_number", Val(tl).total_number), "s", Val(tl).s)

ExtractCommon(source, ms_info) ==
    Try(Timeline(source), LAMBDA tl :
        Ok(SetIfPresent(
               SetIfPresent(
                   SetIfPresent(WithTimeline(ms_info, tl), "start_number", source.startNumber),
                   "timescale", source.timescale),
               "segment_duration", source.duration)))

ExtractInitialization(source, ms_info) ==
    SetIfPresent(ms_info, "initialization_url", source.Initialization)

\* lines 75-80: the SegmentList child
FromSegmentList(segment_list, ms_parent_info) ==
    Try(ExtractCommon(segment_list, ms_parent_info), LAMBDA ms_info :
        Ok(IF segment_list.SegmentURL # <<>>
           THEN Put(ExtractInitialization(segment_list, ms_info),
                    "segment_urls", segment_list.SegmentURL)
           ELSE ExtractInitialization(segment_list, ms_info)))

WithMedia(segment_template, ms_info) ==
    IF ~IsNone(segment_template.media) /\ Val(segment_template.media) # <<>>
    THEN Put(ms_info, "media", Val(segment_template.media))
    ELSE ms_info

WithInitialization(segment_template, ms_info) ==
    IF ~IsNone(segment_template.initialization) /\ Val(segment_template.initialization) # <<>>
    THEN Put(ms_info, "initialization", Val(segment_template.initialization))
    ELSE ExtractInitialization(segment_template, ms_info)

\* lines 82-92: the SegmentTemplate child
FromSegmentTemplate(segment_template, ms_parent_info) ==
    Try(ExtractCommon(segment_template, ms_parent_info), LAMBDA ms_info :
        Ok(WithInitialization(segment_template, WithMedia(segment_template, ms_info))))

\* ExtractMultisegmentInfo starting from an empty context, not from a copy
\* of the parent's
ExtractMultisegmentInfoNoCopy(element, ms_parent_info) ==
    IF ~IsNone(element.SegmentList)
    THEN FromSegmentList(Val(element.SegmentList), EmptyDict)
    ELSE IF ~IsNone(element.SegmentTemplate)
    THEN FromSegmentTemplate(Val(element.SegmentTemplate), EmptyDict)
    ELSE Ok(ms_parent_info)

\* An element (Period, AdaptationSet or Representation) offers SegmentList
\* and SegmentTemplate: None, or Some(source).
ExtractMultisegmentInfo(element, ms_parent_info) ==
    IF ~IsNone(element.SegmentList)
    THEN FromSegmentList(Val(element.SegmentList), ms_parent_info)
    ELSE IF ~IsNone(element.SegmentTemplate)
    THEN FromSegmentTemplate(Val(element.SegmentTemplate), ms_parent_info)
    ELSE Ok(ms_parent_info)

----------------------------------------------------------------------------
(* TemplateExpander *)

NumberId == <<"N", "u", "m", "b", "e", "r">>
BandwidthId == <<"B", "a", "n", "d", "w", "i", "d", "t", "h">>
TimeId == <<"T", "i", "m", "e">>
RepresentationIDTag ==
    <<"$", "R", "e", "p", "r", "e", "s", "e", "n", "t", "a", "t", "i", "o", "n", "I", "D", "$">>

\* EscapePercent doubling nothing
EscapePercentNone(tmpl, in_template) == tmpl

\* the first loop of prepare_template: % outside $...$ is doubled
RECURSIVE EscapePercent(_, _)
EscapePercent(tmpl, in_template) ==
    IF tmpl = <<>> THEN <<>>
    ELSE LET c == Head(tmpl)
         IN IF c = "$" THEN <<c>> \o EscapePercent(Tail(tmpl), ~in_template)
            ELSE IF c = "%" /\ ~in_template THEN <<c, c>> \o EscapePercent(Tail(tmpl), in_template)
            ELSE <<c>> \o EscapePercent(Tail(tmpl), in_template)

\* t.replace(old, new)
RECURSIVE Replace(_, _, _)
Replace(t, old, new) ==
    IF t = <<>> THEN <<>>
    ELSE IF StartsWith(t, old) THEN new \o Replace(SubSeq(t, Len(old) + 1, Len(t)), old, new)
    ELSE <<Head(t)>> \o Replace(Tail(t), old, new)

\* re.sub(r'\$(%s)\$' % '|'.join(identifiers), r'%(\1)d', t)
RECURSIVE SubPlain(_, _)
SubPlain(t, identifiers) ==
    IF t = <<>> THEN <<>>
    ELSE LET hit == {id \in identifiers : StartsWith(t, <<"$">> \o id \o <<"$">>)}
         IN IF hit # {}
            THEN LET id == CHOOSE x \in hit : TRUE
                 IN <<"%", "(">> \o id \o <<")", "d">>
                        \o SubPlain(SubSeq(t, Len(id) + 3, Len(t)), identifiers)
            ELSE <<Head(t)>> \o SubPlain(Tail(t), identifiers)

\* the index of the first "$" of t at or after i, 0 when there is none
RECURSIVE NextDollar(_, _)
NextDollar(t, i) ==
    IF i > Len(t) THEN 0 ELSE IF t[i] = "$" THEN i ELSE NextDollar(t, i + 1)

\* re.sub(r'\$(%s)%%([^$]+)\$' % '|'.join(identifiers), r'%(\1)\2', t)
RECURSIVE SubFormatted(_, _)
SubFormatted(t, identifiers) ==
    IF t = <<>> THEN <<>>
    ELSE LET hit == {id \in identifiers :
                        /\ StartsWith(t, <<"$">> \o id \o <<"%">>)
                        /\ NextDollar(t, Len(id) + 3) > Len(id) + 3}
         IN IF hit # {}
            THEN LET id == CHOOSE x \in hit : TRUE
                     j == NextDollar(t, Len(id) + 3)
                 IN <<"%", "(">> \o id \o <<")">> \o SubSeq(t, Len(id) + 3, j - 1)
                        \o SubFormatted(SubSeq(t, j + 1, Len(t)), identifiers)
            ELSE <<Head(t)>> \o SubFormatted(Tail(t), identifiers)

\* t.replace('$$', '$') is evaluated and its result is dropped: t is returned
\* as the two substitutions left it
DollarCollapse(t) == t

\* MPDParser.prepare_template, for the template tmpl of the Representation
\* context; representation_id is None or Some(id)
PrepareTemplate(tmpl, identifiers, representation_id) ==
    LET t1 == EscapePercent(tmpl, FALSE)
    IN IF IsNone(representation_id) THEN Raise("TypeError")
       ELSE LET t2 == Replace(t1, RepresentationIDTag, Val(representation_id))
                t3 == SubPlain(t2, identifiers)
                t4 == SubFormatted(t3, identifiers)
            IN Ok(DollarCollapse(t4))

(* The % operator of str with a dict on the right: t % args.  args maps a key *)
(* to None or Some(n), n a natural number.  The conversions of the model's    *)
(* templates are %%, %(key)d and %(key)0<width>d.                             *)

IsDigit(c) == c \in {"0", "1", "2", "3", "4", "5", "6", "7", "8", "9"}
DigitValue(c) == CHOOSE n \in 0..9 : Decimal(n) = <<c>>

\* the index of the first ")" of t at or after i, 0 when there is none
RECURSIVE NextParen(_, _)
NextParen(t, i) ==
    IF i > Len(t) THEN 0 ELSE IF t[i] = ")" THEN i ELSE NextParen(t, i + 1)

\* the index after the flag characters of a conversion that start at i
RECURSIVE SkipFlags(_, _)
SkipFlags(t, i) ==
    IF i <= Len(t) /\ t[i] \in {"-", "+", " ", "#", "0"} THEN SkipFlags(t, i + 1) ELSE i

\* the width digits that start at i: <<value, index after them>>
RECURSIVE ReadWidth(_, _, _)
ReadWidth(t, i, w) ==
    IF i <= Len(t) /\ IsDigit(t[i]) THEN ReadWidth(t, i + 1, 10 * w + DigitValue(t[i]))
    ELSE <<w, i>>

RECURSIVE Pad(_, _, _)
Pad(s, width, c) == IF Len(s) >= width THEN s ELSE Pad(<<c>> \o s, width, c)

RECURSIVE FormatFrom(_, _, _, _)
FormatFrom(t, i, args, acc) ==
    IF i > Len(t) THEN Ok(acc)
    ELSE IF t[i] # "%" THEN FormatFrom(t, i + 1, args, Append(acc, t[i]))
    ELSE IF i = Len(t) THEN Raise("ValueError")
    ELSE IF t[i + 1] = "%" THEN FormatFrom(t, i + 2, args, Append(acc, "%"))
    ELSE IF t[i + 1] = "(" THEN
        LET j == NextParen(t, i + 2)
        IN IF j = 0 THEN Raise("ValueError")
           ELSE LET key == SubSeq(t, i + 2, j - 1)
                    f == SkipFlags(t, j + 1)
                    zero == \E k \in (j + 1)..(f - 1) : t[k] = "0"
                    w == ReadWidth(t, f, 0)
                    conv == w[2]
                IN IF key \notin DOMAIN args THEN Raise("KeyError")
                   ELSE IF conv > Len(t) THEN Raise("ValueError")
                   ELSE IF t[conv] # "d" THEN Raise("ValueError")
                   ELSE IF IsNone(args[key]) THEN Raise("TypeError")
                   ELSE FormatFrom(t, conv + 1, args,
                            acc \o Pad(Decimal(Val(args[key])), w[1],
                                       IF zero THEN "0" ELSE " "))
    ELSE LET w == ReadWidth(t, SkipFlags(t, i + 1), 0)
             conv == w[2]
         IN IF conv > Len(t) THEN Raise("ValueError")
            ELSE IF t[conv] = "d" THEN Raise("TypeError")
            ELSE Raise("ValueError")

Format(t, args) == FormatFrom(t, 1, args, <<>>)

----------------------------------------------------------------------------
(* FragmentEnumerator *)

Fragment(key, location, duration) == Put(Put(EmptyDict, key, location), "duration", duration)

\* the list comprehension of Number mode, lines 210-218: one fragment per
\* segment_number of range(segment_number, stop)
RECURSIVE NumberFragments(_, _, _, _, _, _, _)
NumberFragments(media_template, media_location_key, bandwidth, segment_duration, segment_number, stop, fragments) ==
    IF segment_number >= stop THEN Ok(fragments)
    ELSE Try(Format(media_template, (NumberId :> Some(segment_number))
                                        @@ (BandwidthId :> bandwidth)),
             LAMBDA location :
                 NumberFragments(media_template, media_location_key, bandwidth,
                     segment_duration, segment_number + 1, stop,
                     Append(fragments,
                            Fragment(media_location_key, location, segment_duration))))

\* int(math.ceil(float(self.period_duration) / self.segment_duration))
SegmentCount(period_duration, segment_duration) ==
    IF IsNone(period_duration) THEN Raise("TypeError")
    ELSE CeilDiv(Val(period_duration), Val(segment_duration))

\* lines 210-218, for the context as lines 206-209 left it
NumberList(ms_info, media_template, media_location_key, bandwidth, segment_duration) ==
    IF ~Has(ms_info, "total_number") THEN Raise("KeyError")
    ELSE Try(NumberFragments(media_template, media_location_key, bandwidth,
                 segment_duration, ms_info["start_number"],
                 ms_info["total_number"] + ms_info["start_number"], <<>>),
             LAMBDA fragments : Ok(Put(ms_info, "fragments", fragments)))

\* parse, lines 206-218: Number mode.  val: the context with total_number and
\* fragments set
NumberMode(ms_info, media_template, media_location_key, bandwidth, period_duration) ==
    IF ~Has(ms_info, "total_number") /\ Has(ms_info, "segment_duration")
    THEN Try(FloatOrNone(Some(ms_info["segment_duration"]), ms_info["timescale"]),
             LAMBDA segment_duration :
                 Try(SegmentCount(period_duration, segment_duration),
                     LAMBDA total_number :
                         NumberList(Put(ms_info, "total_number", total_number),
                                    media_template, media_location_key, bandwidth,
                                    segment_duration)))
    ELSE NumberList(ms_info, media_template, media_location_key, bandwidth, None)

\* add_segment_url, lines 228-238: the fragment at the cursor
AddSegmentUrl(media_template, media_location_key, bandwidth, timescale, segment_time, segment_d, segment_number) ==
    Try(Format(media_template, (TimeId :> Some(segment_time))
                                   @@ (BandwidthId :> bandwidth)
                                   @@ (NumberId :> Some(segment_number))),
        LAMBDA segment_url :
            Try(FloatOrNone(Some(segment_d), timescale),
                LAMBDA duration : Ok(Fragment(media_location_key, segment_url, duration))))

\* the cursor of the timeline walk
Cursor(segment_time, segment_number, fragments) ==
    [segment_time |-> segment_time, segment_number |-> segment_number,
     fragments |-> fragments]

\* for r in range(s.get('r', 0)), lines 245-248: the repeats of one S entry,
\* `left` of them to go
RECURSIVE Repeats(_, _, _, _, _, _, _)
Repeats(media_template, media_location_key, bandwidth, timescale, segment_d, left, cur) ==
    IF left <= 0 THEN Ok(cur)
    ELSE Try(AddSegmentUrl(media_template, media_location_key, bandwidth, timescale,
                           cur.segment_time + segment_d, segment_d, cur.segment_number),
             LAMBDA fragment :
                 Repeats(media_template, media_location_key, bandwidth, timescale,
                         segment_d, left - 1,
                         Cursor(cur.segment_time + segment_d, cur.segment_number + 1,
                                Append(cur.fragments, fragment))))

\* EntryTime with a t of 0 taken as a start time
EntryTimeReset(s, segment_time) == s.t

\* s.get('t') or self.segment_time
EntryTime(s, segment_time) == IF s.t # 0 THEN s.t ELSE segment_time

\* lines 241-249: one S entry, from the cursor cur
EntryWalk(media_template, media_location_key, bandwidth, timescale, s, cur) ==
    Try(AddSegmentUrl(media_template, media_location_key, bandwidth, timescale,
                      EntryTime(s, cur.segment_time), s.d, cur.segment_number),
        LAMBDA fragment :
            Try(Repeats(media_template, media_location_key, bandwidth, timescale, s.d, s.r,
                        Cursor(EntryTime(s, cur.segment_time), cur.segment_number + 1,
                               Append(cur.fragments, fragment))),
                LAMBDA last :
                    Ok(Cursor(last.segment_time + s.d, last.segment_number,
                              last.fragments))))

\* for num, s in enumerate(representation_ms_info['s']), line 240
RECURSIVE TimelineWalk(_, _, _, _, _, _)
TimelineWalk(media_template, media_location_key, bandwidth, timescale, s_list, cur) ==
    IF s_list = <<>> THEN Ok(cur)
    ELSE Try(EntryWalk(media_template, media_location_key, bandwidth, timescale,
                       Head(s_list), cur),
             LAMBDA next :
                 TimelineWalk(media_template, media_location_key, bandwidth, timescale,
                              Tail(s_list), next))

\* parse, lines 223-249: the media template against the S list
TimelineMode(ms_info, media_template, media_location_key, bandwidth) ==
    IF ~Has(ms_info, "s") THEN Raise("KeyError")
    ELSE Try(TimelineWalk(media_template, media_location_key, bandwidth,
                 ms_info["timescale"], ms_info["s"],
                 Cursor(0, ms_info["start_number"], <<>>)),
             LAMBDA last : Ok(Put(ms_info, "fragments", last.fragments)))

\* The bare name location_key of lines 262 and 277: parse has no local of that
\* name and the module has no global of it (location_key is an attribute of the
\* class), so evaluating it raises NameError.
BareLocationKey(location) == Raise("NameError")

\* the cursor of the pairing of segment URLs with the S list
UrlCursor(segment_index, fragments) ==
    [segment_index |-> segment_index, fragments |-> fragments]

\* for r in range(s.get('r', 0) + 1), lines 259-265
RECURSIVE UrlRun(_, _, _, _)
UrlRun(segment_urls, duration, left, cur) ==
    IF left <= 0 THEN Ok(cur)
    ELSE IF cur.segment_index + 1 > Len(segment_urls) THEN Raise("IndexError")
    ELSE Try(BareLocationKey(segment_urls[cur.segment_index + 1]),
             LAMBDA key :
                 UrlRun(segment_urls, duration, left - 1,
                        UrlCursor(cur.segment_index + 1,
                                  Append(cur.fragments,
                                         Fragment(key, segment_urls[cur.segment_index + 1],
                                                  duration)))))

\* for s in representation_ms_info['s'], lines 257-265
RECURSIVE UrlTimelineWalk(_, _, _, _)
UrlTimelineWalk(segment_urls, timescale, s_list, cur) ==
    IF s_list = <<>> THEN Ok(cur)
    ELSE Try(FloatOrNone(Some(Head(s_list).d), timescale),
             LAMBDA duration :
                 Try(UrlRun(segment_urls, duration, Head(s_list).r + 1, cur),
                     LAMBDA next :
                         UrlTimelineWalk(segment_urls, timescale, Tail(s_list), next)))

\* parse, lines 254-266: segment URLs paired with the S list
UrlTimelineMode(ms_info) ==
    Try(UrlTimelineWalk(ms_info["segment_urls"], ms_info["timescale"], ms_info["s"],
                        UrlCursor(0, <<>>)),
        LAMBDA last : Ok(Put(ms_info, "fragments", last.fragments)))

\* if self.segment_duration: a float that is neither None nor 0.0
Truthy(duration) == ~IsNone(duration) /\ Val(duration)[1] # 0

\* lines 276-280: the fragment of one segment URL
UrlFragment(key, segment_url, segment_duration) ==
    IF Truthy(segment_duration)
    THEN Put(Put(EmptyDict, key, segment_url), "duration", segment_duration)
    ELSE Put(EmptyDict, key, segment_url)

\* for segment_url in representation_ms_info['segment_urls'], lines 275-281
RECURSIVE UrlListWalk(_, _, _)
UrlListWalk(segment_urls, segment_duration, fragments) ==
    IF segment_urls = <<>> THEN Ok(fragments)
    ELSE Try(BareLocationKey(Head(segment_urls)),
             LAMBDA key :
                 UrlListWalk(Tail(segment_urls), segment_duration,
                     Append(fragments,
                            UrlFragment(key, Head(segment_urls), segment_duration))))

\* lines 272-274
ListDuration(ms_info) ==
    IF Has(ms_info, "segment_duration")
    THEN FloatOrNone(Some(ms_info["segment_duration"]), ms_info["timescale"])
    ELSE Ok(None)

\* parse, lines 271-282: segment URLs with no S list
UrlListMode(ms_info) ==
    Try(ListDuration(ms_info), LAMBDA segment_duration :
        Try(UrlListWalk(ms_info["segment_urls"], segment_duration, <<>>),
            LAMBDA fragments : Ok(Put(ms_info, "fragments", fragments))))

\* '%(Number' in self.media_template
ReferencesNumber(media_template) == Contains(media_template, <<"%", "(">> \o NumberId)

\* lines 201-249, for the prepared media template
TemplateMode(ms_info, media_template, bandwidth, period_duration) ==
    IF ReferencesNumber(media_template) /\ ~Has(ms_info, "s")
    THEN NumberMode(ms_info, media_template, LocationKey(media_template), bandwidth,
                    period_duration)
    ELSE TimelineMode(ms_info, media_template, LocationKey(media_template), bandwidth)

\* parse, lines 198-282: the choice of the addressing mode.  val: the
\* Representation context, with fragments when a mode produced them
Enumerate(ms_info, representation_id, bandwidth, period_duration) ==
    IF ~Has(ms_info, "segment_urls") /\ Has(ms_info, "media")
    THEN Try(PrepareTemplate(ms_info["media"], {NumberId, BandwidthId, TimeId},
                             representation_id),
             LAMBDA media_template :
                 TemplateMode(ms_info, media_template, bandwidth, period_duration))
    ELSE IF Has(ms_info, "segment_urls") /\ Has(ms_info, "s") THEN UrlTimelineMode(ms_info)
    ELSE IF Has(ms_info, "segment_urls") THEN UrlListMode(ms_info)
    ELSE Ok(ms_info)

\* parse, lines 187-196: the initialization template of the context
ExpandInitialization(ms_info, representation_id, bandwidth) ==
    IF Has(ms_info, "initialization")
    THEN Try(PrepareTemplate(ms_info["initialization"], {BandwidthId}, representation_id),
             LAMBDA initialization_template :
                 Try(Format(initialization_template, BandwidthId :> bandwidth),
                     LAMBDA initialization_url :
                         Ok(Put(ms_info, "initialization_url", initialization_url))))
    ELSE Ok(ms_info)

----------------------------------------------------------------------------
(* BaseURLResolver *)

\* A Period, AdaptationSet or Representation element: ContentProtection (is
\* there such a child), attrib (the attributes, a dict), BaseURL (None, or
\* Some of the text and the contentLength attribute of the first BaseURL
\* child), SegmentList and SegmentTemplate (None, or Some(source)), and for a
\* Period duration (the parsed attribute).  The document element has BaseURL
\* and mediaPresentationDuration.

\* BaseUrlWalk without the break at an absolute URL
RECURSIVE BaseUrlWalkNoBreak(_, _)
BaseUrlWalkNoBreak(elements, base_url) ==
    IF elements = <<>> THEN base_url
    ELSE IF ~IsNone(Head(elements).BaseURL)
    THEN BaseUrlWalkNoBreak(Tail(elements), Val(Head(elements).BaseURL).text \o base_url)
    ELSE BaseUrlWalkNoBreak(Tail(elements), base_url)

\* the loop of lines 152-157 over (representation, adaptation_set, period, mpd_doc)
RECURSIVE BaseUrlWalk(_, _)
BaseUrlWalk(elements, base_url) ==
    IF elements = <<>> THEN base_url
    ELSE IF ~IsNone(Head(elements).BaseURL)
    THEN IF IsHttp(Val(Head(elements).BaseURL).text \o base_url)
         THEN Val(Head(elements).BaseURL).text \o base_url
         ELSE BaseUrlWalk(Tail(elements), Val(Head(elements).BaseURL).text \o base_url)
    ELSE BaseUrlWalk(Tail(elements), base_url)

\* The bare name base_url of line 159: parse assigns self.base_url and has no
\* local or global base_url, so evaluating it raises NameError.
BareBaseUrl == Raise("NameError")

\* self.mpd_base_url and self.base_url
BaseUrls(mpd_base_url, base_url) == [mpd_base_url |-> mpd_base_url, base_url |-> base_url]

\* lines 159-161, when mpd_base_url does not end with '/'
JoinWithSlash(mpd_base_url, base_url) ==
    Try(BareBaseUrl, LAMBDA name :
        IF ~StartsWith(name, <<"/">>)
        THEN Ok(BaseUrls(mpd_base_url \o <<"/">>, mpd_base_url \o <<"/">> \o base_url))
        ELSE Ok(BaseUrls(mpd_base_url, mpd_base_url \o base_url)))

\* lines 158-161: the manifest base URL as a prefix.  val: mpd_base_url and
\* base_url as the statements leave them
ApplyMpdBaseUrl(mpd_base_url, base_url) ==
    IF mpd_base_url # <<>> /\ ~IsHttp(base_url)
    THEN IF ~EndsWith(mpd_base_url, <<"/">>)
         THEN JoinWithSlash(mpd_base_url, base_url)
         ELSE Ok(BaseUrls(mpd_base_url, mpd_base_url \o base_url))
    ELSE Ok(BaseUrls(mpd_base_url, base_url))

\* lines 151-161
ResolveBaseUrl(representation, adaptation_set, period, mpd_doc, mpd_base_url) ==
    ApplyMpdBaseUrl(mpd_base_url,
        BaseUrlWalk(<<representation, adaptation_set, period, mpd_doc>>, <<>>))

----------------------------------------------------------------------------
(* FormatAssembler *)

\* dict.get(k): None, or Some(value)
Get(dict, k) == IF Has(dict, k) THEN Some(dict[k]) ELSE None

\* the index of the first "/" of s at or after i, Len(s) + 1 when there is none
RECURSIVE NextSlash(_, _)
NextSlash(s, i) ==
    IF i > Len(s) THEN i ELSE IF s[i] = "/" THEN i ELSE NextSlash(s, i + 1)

\* mime_type.split('/')[0]
ContentType(mime_type) == SubSeq(mime_type, 1, NextSlash(mime_type, 1) - 1)

\* utils.mimetype2ext, for the MIME types of the model: the subtype
Mimetype2Ext(mime_type) == SubSeq(mime_type, NextSlash(mime_type, 1) + 1, Len(mime_type))

\* utils.parse_codecs: no field for no codecs attribute, else the codec fields
ParseCodecs(codecs) ==
    IF IsNone(codecs) THEN EmptyDict ELSE Put(EmptyDict, "vcodec", codecs)

MulUndZxxMis ==
    {<<"m", "u", "l">>, <<"u", "n", "d">>, <<"z", "x", "x">>, <<"m", "i", "s">>}

\* line 168
FormatId(mpd_id, representation_id) ==
    IF ~IsNone(mpd_id) /\ Val(mpd_id) # <<>>
    THEN Some(Val(mpd_id) \o <<"-">> \o (IF IsNone(representation_id)
                                         THEN <<"N", "o", "n", "e">>
                                         ELSE Val(representation_id)))
    ELSE representation_id

\* line 176
Language(lang) == IF ~IsNone(lang) /\ Val(lang) \in MulUndZxxMis THEN None ELSE lang

\* line 165
Filesize(url_el) == IF ~IsNone(url_el) THEN Val(url_el).contentLength ELSE None

\* lines 162-181: the descriptor before the segment information
StaticFields(representation, representation_attrib, mime_type, mpd_id, mpd_url) ==
    Update([format_id |-> FormatId(mpd_id, Get(representation_attrib, "id")),
            manifest_url |-> mpd_url,
            ext |-> Some(Mimetype2Ext(mime_type)),
            width |-> Get(representation_attrib, "width"),
            height |-> Get(representation_attrib, "height"),
            tbr |-> FloatOrNone(Get(representation_attrib, "bandwidth"), 1000).val,
            asr |-> Get(representation_attrib, "audioSamplingRate"),
            fps |-> Get(representation_attrib, "frameRate"),
            language |-> Language(Get(representation_attrib, "lang")),
            format_note |-> Some(<<"D", "A", "S", "H", " ">> \o ContentType(mime_type)),
            filesize |-> Filesize(representation.BaseURL),
            container |-> Some(Mimetype2Ext(mime_type) \o <<"_", "d", "a", "s", "h">>)],
           ParseCodecs(Get(representation_attrib, "codecs")))

\* x or y, for a string x that may be None
OrElse(x, y) == IF ~IsNone(x) /\ Val(x) # <<>> THEN Val(x) ELSE y

HttpDashSegments ==
    <<"h", "t", "t", "p", "_", "d", "a", "s", "h", "_", "s", "e", "g", "m", "e", "n", "t", "s">>

\* lines 288-294
Fragmented(f, mpd_url, base_url) ==
    Update(f, [url |-> Some(OrElse(mpd_url, base_url)),
               fragment_base_url |-> Some(base_url),
               fragments |-> <<>>,
               protocol |-> Some(HttpDashSegments)])

\* lines 296-299
WithInitializationFragment(f, initialization_url) ==
    Put(IF Val(f["url"]) = <<>> THEN Put(f, "url", Some(initialization_url)) ELSE f,
        "fragments",
        <<Put(EmptyDict, LocationKey(initialization_url), initialization_url)>>)

\* Extend with the fragments put in front of those f has
ExtendInFront(f, fragments) == Put(f, "fragments", fragments \o f["fragments"])

\* line 300
Extend(f, fragments) == Put(f, "fragments", f["fragments"] \o fragments)

\* lines 287-303: fragmented or direct delivery
Delivery(f, ms_info, mpd_url, base_url) ==
    IF Has(ms_info, "fragments")
    THEN Extend(IF Has(ms_info, "initialization_url")
                THEN WithInitializationFragment(Fragmented(f, mpd_url, base_url),
                                                ms_info["initialization_url"])
                ELSE Fragmented(f, mpd_url, base_url),
                ms_info["fragments"])
    ELSE Put(f, "url", Some(base_url))

\* self.formats_dict.get(self.representation_id, {})
OverrideEntry(formats_dict, representation_id) ==
    IF Has(formats_dict, representation_id) THEN formats_dict[representation_id]
    ELSE EmptyDict

\* MergeOverride without the copy: the entry of the override map is updated
MergeOverrideInPlace(formats_dict, representation_id, f) ==
    [full_info |-> Update(OverrideEntry(formats_dict, representation_id), f),
     formats_dict |-> Put(formats_dict, representation_id,
                          Update(OverrideEntry(formats_dict, representation_id), f))]

\* MergeOverride with the override entry applied on top of the computed descriptor
MergeOverrideEntryWins(formats_dict, representation_id, f) ==
    [full_info |-> Update(f, OverrideEntry(formats_dict, representation_id)),
     formats_dict |-> formats_dict]

\* lines 310-311: the copy of the override entry of the Representation id, with
\* the computed descriptor applied on top.  full_info is the entry appended to
\* formats, formats_dict the override map as the two statements leave it
MergeOverride(formats_dict, representation_id, f) ==
    [full_info |-> Update(OverrideEntry(formats_dict, representation_id), f),
     formats_dict |-> formats_dict]

\* utils.parse_duration(...) or self.mpd_duration
EffectiveDuration(duration, mpd_duration) ==
    IF ~IsNone(duration) /\ Val(duration) # 0 THEN duration ELSE mpd_duration

\* is_drm_protected never finding the marker
IsDrmProtectedNever(element) == FALSE

\* MPDParser.is_drm_protected
IsDrmProtected(element) == element.ContentProtection

\* what lines 151-312 assign for one video or audio Representation
Assigned(urls, ms_info, f, merged) ==
    [base_url |-> urls.base_url, mpd_base_url |-> urls.mpd_base_url,
     representation_ms_info |-> ms_info, f |-> f,
     full_info |-> merged.full_info, formats_dict |-> merged.formats_dict]

\* lines 287-312, for the resolved base URLs and the Representation context
Assemble(urls, ms_info, f, representation_id, mpd_url, formats_dict) ==
    Assigned(urls, ms_info, Delivery(f, ms_info, mpd_url, urls.base_url),
             MergeOverride(formats_dict, representation_id,
                           Delivery(f, ms_info, mpd_url, urls.base_url)))

\* lines 182-282: the Representation context, with its expanded
\* initialization_url and its fragments
RepresentationInfo(representation, representation_id, bandwidth, period_duration, adaption_set_ms_info) ==
    Try(ExtractMultisegmentInfo(representation, adaption_set_ms_info), LAMBDA m0 :
        Try(ExpandInitialization(m0, representation_id, bandwidth), LAMBDA m1 :
            Enumerate(m1, representation_id, bandwidth, period_duration)))

\* lines 151-312: one video or audio Representation
ProcessVideoAudio(representation, adaptation_set, period, mpd_doc, representation_attrib, mime_type, mpd_id, mpd_base_url, mpd_url, formats_dict, period_duration, adaption_set_ms_info) ==
    Try(ResolveBaseUrl(representation, adaptation_set, period, mpd_doc, mpd_base_url),
        LAMBDA urls :
            Try(RepresentationInfo(representation, Get(representation_attrib, "id"),
                                   Get(representation_attrib, "bandwidth"),
                                   period_duration, adaption_set_ms_info),
                LAMBDA ms_info :
                    Ok(Assemble(urls, ms_info,
                                StaticFields(representation, representation_attrib,
                                             mime_type, mpd_id, mpd_url),
                                Get(representation_attrib, "id"), mpd_url, formats_dict))))

----------------------------------------------------------------------------
(* DocumentWalker: MPDParser.parse as a state machine.  The manifest is read *)
(* as the walk reaches it: each step that enters a Period, an AdaptationSet  *)
(* or a Representation takes the next such element of the document.          *)

VARIABLES
    pc,                     \* "constructed", the loop parse is in, "returned" or "raised"
    error,                  \* the exception parse raised, "none" otherwise
    mpd_doc, mpd_id, mpd_base_url, formats_dict, mpd_url,   \* set by __init__
    mpd_duration, formats,
    period, period_duration, period_ms_info,
    adaptation_set, adaption_set_ms_info,
    representation, representation_ms_info, base_url, f,
    warnings,               \* the calls of ie.report_warning
    origin,                 \* history: origin[i] is the place formats[i] was built from
    read                    \* history: how many elements of each kind were read

vars == <<pc, error, mpd_doc, mpd_id, mpd_base_url, formats_dict, mpd_url,
          mpd_duration, formats, period, period_duration, period_ms_info,
          adaptation_set, adaption_set_ms_info,
          representation, representation_ms_info, base_url, f, warnings, origin, read>>

MaxPeriods == 1
MaxAdaptationSets == 2
MaxRepresentations == 2

\* mpd_doc.size: how many Period, AdaptationSet and Representation elements the
\* document has at most
Size(periods, adaptation_sets, representations) ==
    [periods |-> periods, adaptation_sets |-> adaptation_sets,
     representations |-> representations]

\* the context parse seeds every Period with, lines 129-132
SeedInfo == [start_number |-> 1, timescale |-> 1]

\* __init__: the state after construction
Constructed(doc, id, mpd_base, overrides, url) ==
    /\ pc = "constructed"
    /\ error = "none"
    /\ mpd_doc = doc
    /\ mpd_id = id
    /\ mpd_base_url = mpd_base
    /\ formats_dict = overrides
    /\ mpd_url = url
    /\ mpd_duration = None
    /\ formats = <<>>
    /\ period = None
    /\ period_duration = None
    /\ period_ms_info = EmptyDict
    /\ adaptation_set = None
    /\ adaption_set_ms_info = EmptyDict
    /\ representation = None
    /\ representation_ms_info = EmptyDict
    /\ base_url = <<>>
    /\ f = EmptyDict
    /\ warnings = <<>>
    /\ origin = <<>>
    /\ read = [periods |-> 0, adaptation_sets |-> 0, representations |-> 0]

InPeriodLoop == pc \in {"periods", "adaptation_sets", "representations"}
InAdaptationSetLoop == pc \in {"adaptation_sets", "representations"}
InRepresentationLoop == pc = "representations"

\* lines 124-125
BeginParse ==
    /\ pc = "constructed"
    /\ pc' = "periods"
    /\ mpd_duration' = mpd_doc.mediaPresentationDuration
    /\ formats' = <<>>
    /\ UNCHANGED <<error, mpd_doc, mpd_id, mpd_base_url, formats_dict, mpd_url,
                   period, period_duration, period_ms_info,
                   adaptation_set, adaption_set_ms_info,
                   representation, representation_ms_info, base_url, f,
                   warnings, origin, read>>

\* an exception leaves parse
Raised(e) ==
    /\ pc' = "raised"
    /\ error' = e

\* ParentContext without the copy: the parent's context is the object the
\* statements assigned to
ParentContextShared(ms_parent_info, ms_info) == ms_info

\* line 72: the context ms_info that extract_multisegment_info returned, and
\* that the statements after the call assigned to, is a copy; the context of
\* the parent is left as it was
ParentContext(ms_parent_info, ms_info) == ms_parent_info

\* line 129, for the context extract_multisegment_info computed
PeriodInfo(m) ==
    IF m.err # "none"
    THEN Raised(m.err) /\ UNCHANGED period_ms_info
    ELSE pc' = "adaptation_sets" /\ period_ms_info' = m.val /\ UNCHANGED error

\* lines 126-132: the next Period of the document
EnterPeriod(p) ==
    /\ InPeriodLoop
    /\ read.periods < mpd_doc.size.periods
    /\ read' = [read EXCEPT !.periods = @ + 1]
    /\ period' = Some(p)
    /\ period_duration' = EffectiveDuration(p.duration, mpd_duration)
    /\ PeriodInfo(ExtractMultisegmentInfo(p, SeedInfo))
    /\ UNCHANGED <<mpd_doc, mpd_id, mpd_base_url, formats_dict, mpd_url,
                   mpd_duration, formats, adaptation_set, adaption_set_ms_info,
                   representation, representation_ms_info, base_url, f,
                   warnings, origin>>

\* line 137, for the context extract_multisegment_info computed
AdaptationSetInfo(m) ==
    IF m.err # "none"
    THEN Raised(m.err) /\ UNCHANGED <<period_ms_info, adaption_set_ms_info>>
    ELSE /\ pc' = "representations"
         /\ adaption_set_ms_info' = m.val
         /\ period_ms_info' = ParentContext(period_ms_info, m.val)
         /\ UNCHANGED error

\* lines 133-137: the next AdaptationSet of the Period.  The Representations
\* of a protected AdaptationSet are not read.
EnterAdaptationSet(a) ==
    /\ InAdaptationSetLoop
    /\ read.adaptation_sets < mpd_doc.size.adaptation_sets
    /\ read' = [read EXCEPT !.adaptation_sets = @ + 1]
    /\ adaptation_set' = Some(a)
    /\ IF IsDrmProtected(a)
       THEN pc' = "adaptation_sets"
            /\ UNCHANGED <<error, period_ms_info, adaption_set_ms_info>>
       ELSE AdaptationSetInfo(ExtractMultisegmentInfo(a, period_ms_info))
    /\ UNCHANGED <<mpd_doc, mpd_id, mpd_base_url, formats_dict, mpd_url,
                   mpd_duration, formats, period, period_duration,
                   representation, representation_ms_info, base_url, f,
                   warnings, origin>>

\* the place of the Representation r in the document, and the ContentProtection
\* markers above it
Origin(r) ==
    [period |-> read.periods, adaptation_set |-> read.adaptation_sets,
     representation |-> read.representations + 1,
     protected |-> r.ContentProtection \/ Val(adaptation_set).ContentProtection]

\* lines 136 and 141 (continue), and line 149 (pass)
Skip ==
    UNCHANGED <<pc, error, mpd_base_url, formats_dict, formats, adaption_set_ms_info,
                representation_ms_info, base_url, f, warnings, origin>>

\* an exception of lines 145-312 leaves parse.  The attributes the interrupted
\* statements had assigned are kept as they were: nothing reads them afterwards.
\* The AdaptationSet context is none of them: the statements assign to the copy
\* of line 72.
Abort(e) ==
    /\ Raised(e)
    /\ UNCHANGED <<mpd_base_url, formats_dict, formats, adaption_set_ms_info,
                   representation_ms_info, base_url, f, warnings, origin>>

\* Emit with the descriptor put in front of formats
EmitFirst(r, done) ==
    /\ base_url' = done.base_url
    /\ mpd_base_url' = done.mpd_base_url
    /\ representation_ms_info' = done.representation_ms_info
    /\ adaption_set_ms_info' = ParentContext(adaption_set_ms_info, done.representation_ms_info)
    /\ f' = done.f
    /\ formats_dict' = done.formats_dict
    /\ formats' = <<done.full_info>> \o formats
    /\ origin' = <<Origin(r)>> \o origin
    /\ UNCHANGED <<pc, error, warnings>>

\* line 312, after lines 151-311 assigned `done`
Emit(r, done) ==
    /\ base_url' = done.base_url
    /\ mpd_base_url' = done.mpd_base_url
    /\ representation_ms_info' = done.representation_ms_info
    /\ adaption_set_ms_info' = ParentContext(adaption_set_ms_info, done.representation_ms_info)
    /\ f' = done.f
    /\ formats_dict' = done.formats_dict
    /\ formats' = Append(formats, done.full_info)
    /\ origin' = Append(origin, Origin(r))
    /\ UNCHANGED <<pc, error, warnings>>

Processed(r, done) == IF done.err # "none" THEN Abort(done.err) ELSE Emit(r, done.val)

\* line 314
Warn(mime_type) ==
    /\ warnings' = Append(warnings, mime_type)
    /\ UNCHANGED <<pc, error, mpd_base_url, formats_dict, formats, adaption_set_ms_info,
                   representation_ms_info, base_url, f, origin>>

\* lines 146-314: the routing by the top-level MIME category
RouteMime(r, representation_attrib, mime_type, content_type) ==
    IF content_type = <<"t", "e", "x", "t">> THEN Skip
    ELSE IF content_type \in {<<"v", "i", "d", "e", "o">>, <<"a", "u", "d", "i", "o">>}
    THEN Processed(r, ProcessVideoAudio(r, Val(adaptation_set), Val(period), mpd_doc,
                          representation_attrib, mime_type, mpd_id, mpd_base_url,
                          mpd_url, formats_dict, period_duration, adaption_set_ms_info))
    ELSE Warn(mime_type)

\* lines 140-145
Route(r, representation_attrib) ==
    IF IsDrmProtected(r) THEN Skip
    ELSE IF ~Has(representation_attrib, "mimeType") THEN Abort("KeyError")
    ELSE RouteMime(r, representation_attrib, representation_attrib["mimeType"],
                   ContentType(representation_attrib["mimeType"]))

\* lines 138-314: the next Representation of the AdaptationSet
VisitRepresentation(r) ==
    /\ InRepresentationLoop
    /\ read.representations < mpd_doc.size.representations
    /\ read' = [read EXCEPT !.representations = @ + 1]
    /\ representation' = Some(r)
    /\ Route(r, Update(Val(adaptation_set).attrib, r.attrib))
    /\ UNCHANGED <<mpd_doc, mpd_id, mpd_url, mpd_duration,
                   period, period_duration, period_ms_info, adaptation_set>>

\* line 315: the document has no further element
Return ==
    /\ InPeriodLoop
    /\ pc' = "returned"
    /\ UNCHANGED <<error, mpd_doc, mpd_id, mpd_base_url, formats_dict, mpd_url,
                   mpd_duration, formats, period, period_duration, period_ms_info,
                   adaptation_set, adaption_set_ms_info,
                   representation, representation_ms_info, base_url, f,
                   warnings, origin, read>>

----------------------------------------------------------------------------
(* The manifests of the model *)

Source(timeline, startNumber, timescale, duration, Initialization, SegmentURL, media, initialization) ==
    [SegmentTimeline |-> timeline, startNumber |-> startNumber, timescale |-> timescale,
     duration |-> duration, Initialization |-> Initialization, SegmentURL |-> SegmentURL,
     media |-> media, initialization |-> initialization]

Element(ContentProtection, attrib, BaseURL, SegmentList, SegmentTemplate, duration) ==
    [ContentProtection |-> ContentProtection, attrib |-> attrib, BaseURL |-> BaseURL,
     SegmentList |-> SegmentList, SegmentTemplate |-> SegmentTemplate,
     duration |-> duration]

Document(BaseURL, mediaPresentationDuration, size) ==
    [BaseURL |-> BaseURL, mediaPresentationDuration |-> mediaPresentationDuration,
     size |-> size]

BaseUrlElement(text) == Some([text |-> text, contentLength |-> None])

WithAttr(attrib, name, value) == IF IsNone(value) THEN attrib ELSE Put(attrib, name, Val(value))

Attrib(id, mimeType, bandwidth) ==
    WithAttr(WithAttr(WithAttr(EmptyDict, "id", id), "mimeType", mimeType),
             "bandwidth", bandwidth)

Id480p == <<"4", "8", "0", "p">>
Id720p == <<"7", "2", "0", "p">>
VideoMp4 == <<"v", "i", "d", "e", "o", "/", "m", "p", "4">>
AudioMp4 == <<"a", "u", "d", "i", "o", "/", "m", "p", "4">>
TextVtt == <<"t", "e", "x", "t", "/", "v", "t", "t">>
ImageJpeg == <<"i", "m", "a", "g", "e", "/", "j", "p", "e", "g">>

NumberTemplate == <<"s", "$">> \o NumberId \o <<"$">>
TimeTemplate == <<"t", "$">> \o TimeId \o <<"$">>
PlainTemplate == <<"m">>
InitTemplate == <<"i", "$">> \o BandwidthId \o <<"$">>

ManifestUrl == HTTP \o <<"m">>
HostUrl == HTTP \o <<"h", "o", "s", "t", "/">>
CdnUrl == HTTP \o <<"c", "d", "n">>

NoSource == Source(None, None, None, None, None, <<>>, None, None)

S(t, d, r) == [t |-> t, d |-> d, r |-> r]

\* <SegmentTemplate media="s$Number$" duration="2"/>
NumberSource == [NoSource EXCEPT !.media = Some(NumberTemplate), !.duration = Some(2)]
\* <SegmentTemplate media="t$Time$"> with the timeline S(t=0 d=4 r=1), S(d=4)
TimeSource ==
    [NoSource EXCEPT !.media = Some(TimeTemplate),
                     !.SegmentTimeline = Some(<<S(Some(0), Some(4), Some(1)),
                                                S(None, Some(4), None)>>)]
\* a timeline whose S has no d
MalformedSource ==
    [NoSource EXCEPT !.media = Some(TimeTemplate),
                     !.SegmentTimeline = Some(<<S(None, None, None)>>)]
\* <SegmentList> with two SegmentURL
UrlSource == [NoSource EXCEPT !.SegmentURL = <<<<"u">>, HostUrl \o <<"v">>>>]
\* <SegmentTemplate timescale="2" initialization="i$Bandwidth$"/>
ScaleSource == [NoSource EXCEPT !.timescale = Some(2), !.initialization = Some(InitTemplate)]

\* the caller's override map: an entry for the id 480p
Overrides480p ==
    Some(Id480p) :> [url |-> Some(<<"o">>),
                     fragments |-> <<Put(EmptyDict, "path", <<"o">>)>>,
                     preference |-> Some(1)]

WalkDocuments ==
    {Document(None, Some(10), Size(MaxPeriods, MaxAdaptationSets, MaxRepresentations))}

WalkPeriods ==
    {Element(FALSE, EmptyDict, None, None, None, None),
     Element(FALSE, EmptyDict, None, None, Some(ScaleSource), Some(4))}

WalkAdaptationSets ==
    {Element(FALSE, EmptyDict, None, None, None, None),
     Element(FALSE, Attrib(None, Some(AudioMp4), None), None, None, Some(TimeSource), None),
     Element(TRUE, Attrib(None, Some(VideoMp4), None), None, None, Some(NumberSource), None)}

WalkRepresentations ==
    {Element(FALSE, Attrib(Some(Id480p), Some(VideoMp4), Some(1000)), None, None, tmpl, None) :
        tmpl \in {None, Some(NumberSource)}}
    \cup {Element(FALSE, Attrib(Some(Id720p), Some(VideoMp4), Some(1000)), None, None,
                  None, None)}
    \cup {Element(FALSE, Attrib(Some(Id480p), mime, None), None, None, None, None) :
        mime \in {None, Some(TextVtt), Some(ImageJpeg)}}
    \cup {Element(FALSE, Attrib(Some(Id480p), Some(VideoMp4), None), None,
                  Some(UrlSource), None, None)}
    \cup {Element(TRUE, Attrib(Some(Id480p), None, None), None, None,
                  Some(MalformedSource), None)}

Init ==
    \E doc \in WalkDocuments, overrides \in {EmptyDict, Overrides480p} :
        Constructed(doc, None, <<>>, overrides, None)

Next ==
    \/ BeginParse
    \/ \E p \in WalkPeriods : EnterPeriod(p)
    \/ \E a \in WalkAdaptationSets : EnterAdaptationSet(a)
    \/ \E r \in WalkRepresentations : VisitRepresentation(r)
    \/ Return

Spec == Init /\ [][Next]_vars

----------------------------------------------------------------------------
(* The enumeration of fragments: manifests with one Representation whose     *)
(* segment information is drawn from generated sets.                          *)

MaxEntries == 2

TimeAttrs == {None, Some(7)}
\* <<d, r>>: a single segment, a repeated one, one repeated to the end of the Period
RunAttrs == {<<Some(4), None>>, <<Some(2), Some(1)>>, <<Some(4), Some(-1)>>}

Entries ==
    {S(t, run[1], run[2]) : t \in TimeAttrs, run \in RunAttrs}
    \cup {S(Some(0), Some(4), Some(1))}
Timelines == UNION {[1..n -> Entries] : n \in 1..MaxEntries}

UrlLists == {<<<<"u">>>>, <<<<"u">>, HostUrl \o <<"v">>, <<"w">>>>}

\* SegmentTemplate with a media template and a timeline, or no timeline and a duration
EnumTemplates ==
    {Source(Some(tl), sn, ts, None, None, <<>>, Some(media), None) :
        tl \in Timelines, sn \in {None, Some(3)}, ts \in {None, Some(2)},
        media \in {NumberTemplate, TimeTemplate}}
    \cup {Source(None, sn, ts, dur, None, <<>>, Some(media), None) :
        sn \in {None, Some(3)}, ts \in {None, Some(2), Some(0)},
        dur \in {None, Some(0), Some(2), Some(3)},
        media \in {NumberTemplate, TimeTemplate, PlainTemplate}}

\* SegmentList with segment URLs and a timeline, or no timeline and a duration
EnumLists ==
    {Source(Some(tl), None, ts, None, None, urls, None, None) :
        tl \in Timelines, ts \in {None, Some(2)}, urls \in UrlLists}
    \cup {Source(None, None, ts, dur, None, urls, None, None) :
        ts \in {None, Some(2)}, dur \in {None, Some(0), Some(2)}, urls \in UrlLists}

EnumDocuments == {Document(None, None, Size(1, 1, 1))}

\* Periods with and without a duration, and one that hands segment URLs down
EnumPeriods ==
    {Element(FALSE, EmptyDict, None, None, None, dur) : dur \in {None, Some(10)}}
    \cup {Element(FALSE, EmptyDict, None, Some(UrlSource), None, Some(10))}

EnumAdaptationSets ==
    {Element(FALSE, Attrib(None, Some(VideoMp4), None), None, None, None, None)}

EnumRepresentations ==
    {Element(FALSE, Attrib(Some(Id480p), None, Some(5)), None, None, Some(src), None) :
        src \in EnumTemplates}
    \cup {Element(FALSE, Attrib(Some(Id480p), None, Some(5)), None, Some(src), None, None) :
        src \in EnumLists}

InitEnum ==
    \E doc \in EnumDocuments : Constructed(doc, None, <<>>, EmptyDict, None)

NextEnum ==
    \/ BeginParse
    \/ \E p \in EnumPeriods : EnterPeriod(p)
    \/ \E a \in EnumAdaptationSets : EnterAdaptationSet(a)
    \/ \E r \in EnumRepresentations : VisitRepresentation(r)
    \/ Return

SpecEnum == InitEnum /\ [][NextEnum]_vars

----------------------------------------------------------------------------
(* The resolution of the base URL: manifests with one Representation and a   *)
(* BaseURL at any of the four levels.                                         *)

BaseDocuments ==
    {Document(b, Some(10), Size(1, 1, 1)) :
        b \in {None, BaseUrlElement(<<"d", "/">>), BaseUrlElement(HTTPS \o <<"d", "/">>)}}

BasePeriods ==
    {Element(FALSE, EmptyDict, b, None, None, None) :
        b \in {None, BaseUrlElement(<<"p", "/">>), BaseUrlElement(HostUrl)}}

BaseAdaptationSets ==
    {Element(FALSE, Attrib(None, Some(VideoMp4), None), b, None, None, None) :
        b \in {None, BaseUrlElement(<<"a", "/">>), BaseUrlElement(HTTP \o <<"a", "/">>)}}

BaseRepresentations ==
    {Element(FALSE, Attrib(Some(Id480p), None, None), b, None, None, None) :
        b \in {None, BaseUrlElement(<<"s", "e", "g", "/">>),
               BaseUrlElement(HTTP \o <<"r", "/">>)}}

InitBase ==
    \E doc \in BaseDocuments, mpd_base \in {<<>>, CdnUrl, CdnUrl \o <<"/">>},
       id \in {None, Some(<<"m">>)}, url \in {None, Some(ManifestUrl)} :
        Constructed(doc, id, mpd_base, EmptyDict, url)

NextBase ==
    \/ BeginParse
    \/ \E p \in BasePeriods : EnterPeriod(p)
    \/ \E a \in BaseAdaptationSets : EnterAdaptationSet(a)
    \/ \E r \in BaseRepresentations : VisitRepresentation(r)
    \/ Return

SpecBase == InitBase /\ [][NextBase]_vars

----------------------------------------------------------------------------
(* The expansion of templates: manifests with one Representation whose media *)
(* template is put together from pieces and expanded against one S entry.    *)

MaxPieces == 3

\* the pieces of a template: literal text, literal '%', the identifiers with
\* and without a format tag, the escape '$$'
Pieces ==
    {<<"f">>, <<"%">>, <<"%", "2", "0">>,
     <<"$">> \o NumberId \o <<"$">>, <<"$">> \o TimeId \o <<"$">>,
     <<"$">> \o BandwidthId \o <<"$">>,
     <<"$">> \o NumberId \o <<"%", "0", "3", "d", "$">>,
     <<"$", "$">>}

RECURSIVE Joined(_)
Joined(pieces) == IF pieces = <<>> THEN <<>> ELSE Head(pieces) \o Joined(Tail(pieces))

\* file%20-$Number$.mp4
FileTemplate ==
    <<"f", "i", "l", "e", "%", "2", "0", "-", "$">> \o NumberId \o <<"$", ".", "m", "p", "4">>

ExpandTemplates ==
    {Joined(ps) : ps \in UNION {[1..n -> Pieces] : n \in 1..MaxPieces}} \cup {FileTemplate}

ExpandDocuments == {Document(None, Some(10), Size(1, 1, 1))}

ExpandPeriods == {Element(FALSE, EmptyDict, None, None, None, None)}

ExpandAdaptationSets ==
    {Element(FALSE, Attrib(None, Some(VideoMp4), None), None, None, None, None)}

\* <SegmentTemplate media=... startNumber="3"> with the timeline S(t=7 d=4)
ExpandRepresentations ==
    {Element(FALSE, Attrib(Some(Id480p), None, Some(5)), None, None,
             Some(Source(Some(<<S(Some(7), Some(4), None)>>), Some(3), None, None, None,
                         <<>>, Some(media), None)), None) :
        media \in ExpandTemplates}

InitExpand ==
    \E doc \in ExpandDocuments : Constructed(doc, None, <<>>, EmptyDict, None)

NextExpand ==
    \/ BeginParse
    \/ \E p \in ExpandPeriods : EnterPeriod(p)
    \/ \E a \in ExpandAdaptationSets : EnterAdaptationSet(a)
    \/ \E r \in ExpandRepresentations : VisitRepresentation(r)
    \/ Return

SpecExpand == InitExpand /\ [][NextExpand]_vars

----------------------------------------------------------------------------
(* The inheritance of contexts: manifests with one Representation whose      *)
(* Period, AdaptationSet and Representation offer SegmentList and            *)
(* SegmentTemplate children drawn from generated sets.                        *)

\* <SegmentTemplate> and <SegmentList> of a Period, supplying every field
PeriodTemplate ==
    Source(Some(<<S(None, Some(4), Some(1))>>), Some(3), Some(2), Some(2), Some(<<"v">>),
           <<>>, Some(NumberTemplate), Some(InitTemplate))
PeriodList ==
    Source(Some(<<S(Some(7), Some(2), None)>>), Some(4), Some(2), None, Some(<<"v">>),
           <<<<"u">>>>, None, None)

ContextDocuments == {Document(None, Some(10), Size(1, 1, 1))}

ContextPeriods ==
    {Element(FALSE, EmptyDict, None, list, tmpl, None) :
        list \in {None, Some(PeriodList)}, tmpl \in {None, Some(PeriodTemplate)}}

\* a SegmentTimeline child: none, one without S children, one with an S
ContextTimelines == {None, Some(<<>>), Some(<<S(None, Some(6), None)>>)}

\* <Initialization sourceURL="w$Bandwidth$"/>
SourceUrl == <<"w", "$">> \o BandwidthId \o <<"$">>

ContextLists ==
    {Source(tl, sn, None, None, init, urls, None, None) :
        tl \in ContextTimelines, sn \in {None, Some(5)}, init \in {None, Some(SourceUrl)},
        urls \in {<<>>, <<<<"x">>>>}}

ContextTemplates ==
    {Source(tl, sn, None, None, init, <<>>, media, initialization) :
        tl \in ContextTimelines, sn \in {None, Some(5)}, init \in {None, Some(SourceUrl)},
        media \in {None, Some(<<>>), Some(TimeTemplate)},
        initialization \in {None, Some(<<>>), Some(<<"j">>)}}

\* AdaptationSets with a SegmentList, with a SegmentTemplate, with both, with neither
ContextAdaptationSets ==
    {Element(FALSE, Attrib(None, Some(VideoMp4), None), None, None, None, None)}
    \cup {Element(FALSE, Attrib(None, Some(VideoMp4), None), None, Some(list), tmpl, None) :
            list \in ContextLists, tmpl \in {None, Some(PeriodTemplate)}}
    \cup {Element(FALSE, Attrib(None, Some(VideoMp4), None), None, None, Some(tmpl), None) :
            tmpl \in ContextTemplates}

ContextRepresentations ==
    {Element(FALSE, Attrib(Some(Id480p), None, Some(5)), None, list, tmpl, None) :
        list \in {None, Some(Source(None, None, Some(3), None, None, <<>>, None, None))},
        tmpl \in {None, Some(NumberSource)}}

InitContext ==
    \E doc \in ContextDocuments : Constructed(doc, None, <<>>, EmptyDict, None)

NextContext ==
    \/ BeginParse
    \/ \E p \in ContextPeriods : EnterPeriod(p)
    \/ \E a \in ContextAdaptationSets : EnterAdaptationSet(a)
    \/ \E r \in ContextRepresentations : VisitRepresentation(r)
    \/ Return

SpecContext == InitContext /\ [][NextContext]_vars

----------------------------------------------------------------------------
(* The properties checked *)

\* The Representation read last was processed as video or audio: the last
\* descriptor of formats is its descriptor, and representation_ms_info, base_url
\* and f are as its processing left them.
Current ==
    /\ origin # <<>>
    /\ origin[Len(origin)].period = read.periods
    /\ origin[Len(origin)].adaptation_set = read.adaptation_sets
    /\ origin[Len(origin)].representation = read.representations

\* The Representation and the AdaptationSet read last make a video or audio
\* Representation without ContentProtection.
VideoAudio ==
    /\ ~IsNone(representation)
    /\ ~IsNone(adaptation_set)
    /\ ~Val(representation).ContentProtection
    /\ ~Val(adaptation_set).ContentProtection
    /\ LET attrib == Update(Val(adaptation_set).attrib, Val(representation).attrib)
       IN /\ Has(attrib, "mimeType")
          /\ ContentType(attrib["mimeType"])
                 \in {<<"v", "i", "d", "e", "o">>, <<"a", "u", "d", "i", "o">>}

\* the locator of a fragment
Location(fragment) == IF Has(fragment, "url") THEN fragment["url"] ELSE fragment["path"]

\* the media fragments of the last descriptor: its fragments after the
\* initialization fragment
MediaFragments ==
    LET all == formats[Len(formats)]["fragments"]
        n == Len(representation_ms_info["fragments"])
    IN SubSeq(all, Len(all) - n + 1, Len(all))

\* the template with its first $id$ replaced by text
Filled(template, id, text) ==
    LET tag == <<"$">> \o id \o <<"$">>
        at == {i \in 1..(Len(template) - Len(tag) + 1) :
                  SubSeq(template, i, i + Len(tag) - 1) = tag}
    IN IF at = {} THEN template
       ELSE LET i == CHOOSE x \in at : \A y \in at : x <= y
            IN SubSeq(template, 1, i - 1) \o text
                   \o SubSeq(template, i + Len(tag), Len(template))

\* ceil(p / (sd / ts)) for natural p and positive sd, ts
Ceiling(p, sd, ts) == CHOOSE n \in 0..(p * ts) : (n - 1) * sd < p * ts /\ p * ts <= n * sd

\* the float q is n / d
IsQuotient(q, n, d) == q[1] * d = n * q[2]

\* the sum of (1 + r) over the S entries
RECURSIVE RepeatSum(_)
RepeatSum(s_list) ==
    IF s_list = <<>> THEN 0 ELSE 1 + Head(s_list).r + RepeatSum(Tail(s_list))

\* the d of the S entry of each timeline position, 1 + r positions an entry
RECURSIVE EntryDurations(_)
EntryDurations(s_list) ==
    IF s_list = <<>> THEN <<>>
    ELSE [j \in 1..(1 + Head(s_list).r) |-> Head(s_list).d] \o EntryDurations(Tail(s_list))

\* The merged context has a media template referencing $Number$, no segment
\* URLs, no timeline, and a segment_duration.
NumberCase ==
    /\ Current
    /\ Has(representation_ms_info, "media")
    /\ Contains(representation_ms_info["media"], <<"$">> \o NumberId \o <<"$">>)
    /\ ~Has(representation_ms_info, "segment_urls")
    /\ ~Has(representation_ms_info, "s")
    /\ Has(representation_ms_info, "segment_duration")

TimelineCase ==
    /\ Current
    /\ Has(representation_ms_info, "media")
    /\ ~Has(representation_ms_info, "segment_urls")
    /\ Has(representation_ms_info, "s")

\* the start times of the claimed walk: each S entry emits `1 + r` fragments
RECURSIVE ClaimedTimes(_, _)
ClaimedTimes(s_list, cursor) ==
    IF s_list = <<>> THEN <<>>
    ELSE LET e == Head(s_list)
             start == IF e.t # 0 THEN e.t ELSE cursor
         IN [j \in 1..(1 + e.r) |-> start + (j - 1) * e.d]
                \o ClaimedTimes(Tail(s_list), start + (1 + e.r) * e.d)

\* the start times when an S entry with a negative r emits one fragment
RECURSIVE WalkedTimes(_, _)
WalkedTimes(s_list, cursor) ==
    IF s_list = <<>> THEN <<>>
    ELSE LET e == Head(s_list)
             start == IF e.t # 0 THEN e.t ELSE cursor
             n == IF e.r >= 0 THEN 1 + e.r ELSE 1
         IN [j \in 1..n |-> start + (j - 1) * e.d]
                \o WalkedTimes(Tail(s_list), start + n * e.d)

\* the fragments are those of the start times, in order
AtTimes(times) ==
    /\ Len(MediaFragments) = Len(times)
    /\ \A k \in 1..Len(times) :
           Location(MediaFragments[k])
               = Filled(Filled(representation_ms_info["media"], TimeId, Decimal(times[k])),
                        NumberId, Decimal(representation_ms_info["start_number"] + k - 1))

\* C2 as stated: Timeline time law.  The cursor starts at 0; an S entry
\* replaces it by its t only when t is non-zero, emits 1 + r fragments at
\* cursor, cursor + d, ..., cursor + r*d, and leaves the cursor at the end of
\* the entry.  Violated by an S entry with r = -1, which emits one fragment.
C2_TimelineTimesAsStated ==
    TimelineCase => AtTimes(ClaimedTimes(representation_ms_info["s"], 0))

\* C2, amended: Timeline time law.  The cursor starts at 0; an S entry replaces
\* it by its t only when t is non-zero (an absent t or t = 0 keeps the running
\* value); an entry with r >= 0 emits 1 + r fragments at cursor, cursor + d,
\* ..., cursor + r*d, an entry with r < 0 emits one fragment at the cursor; the
\* cursor is then left at the last start + d.
C2_TimelineTimes ==
    TimelineCase => AtTimes(WalkedTimes(representation_ms_info["s"], 0))

\* the timeline [{t:0,d:4,r:1},{d:4}] against t$Time$: the start times 0, 4, 8
C2_Witness ==
    /\ TimelineCase
    /\ representation_ms_info["media"] = TimeTemplate
    /\ representation_ms_info["s"] = <<[t |-> 0, d |-> 4, r |-> 1], [t |-> 0, d |-> 4, r |-> 0]>>
    /\ Len(MediaFragments) = 3
    /\ Location(MediaFragments[1]) = <<"t", "0">>
    /\ Location(MediaFragments[2]) = <<"t", "4">>
    /\ Location(MediaFragments[3]) = <<"t", "8">>

\* C3: Timeline count and numbering law.  For a timeline with repeat counts
\* >= 0, total_number of the context is the sum of (1 + r) over the S entries,
\* the walk of the media template emits that many fragments, the k-th (from 0)
\* is expanded with Number = start_number + k, and a fragment emitted for an S
\* entry has the duration d / timescale of that entry.
C3_TimelineCount ==
    (TimelineCase /\ \A i \in 1..Len(representation_ms_info["s"]) :
                         representation_ms_info["s"][i].r >= 0) =>
        LET ctx == representation_ms_info
            total == RepeatSum(ctx["s"])
            ds == EntryDurations(ctx["s"])
        IN /\ ctx["total_number"] = total
           /\ Len(ctx["fragments"]) = total
           /\ Len(MediaFragments) = total
           /\ \A k \in 1..total :
                /\ Contains(ctx["media"], <<"$">> \o TimeId \o <<"$">>)
                   \/ Location(MediaFragments[k])
                          = Filled(ctx["media"], NumberId,
                                   Decimal(ctx["start_number"] + k - 1))
                /\ ~IsNone(MediaFragments[k]["duration"])
                /\ IsQuotient(Val(MediaFragments[k]["duration"]), ds[k], ctx["timescale"])

\* s$Number$ with startNumber 3 and timescale 2 against [{d:2,r:1},{d:4}]:
\* s3 and s4 of duration 1, s5 of duration 2
C3_Witness ==
    /\ TimelineCase
    /\ representation_ms_info["media"] = NumberTemplate
    /\ representation_ms_info["s"] = <<[t |-> 0, d |-> 2, r |-> 1], [t |-> 0, d |-> 4, r |-> 0]>>
    /\ representation_ms_info["start_number"] = 3
    /\ representation_ms_info["timescale"] = 2
    /\ representation_ms_info["total_number"] = 3
    /\ Location(MediaFragments[1]) = <<"s", "3">>
    /\ Location(MediaFragments[3]) = <<"s", "5">>
    /\ MediaFragments[2]["duration"] = Some(<<1, 1>>)
    /\ MediaFragments[3]["duration"] = Some(<<2, 1>>)

\* the one Representation of the manifest was read, and it is video or audio
ReadVideoAudio == read.representations = 1 /\ VideoAudio

\* the context of the Representation read last, merged from its own segment
\* information and the AdaptationSet context
Merged == ExtractMultisegmentInfo(Val(representation), adaption_set_ms_info).val

\* one fragment per URL, in order, with the durations of the sequence
Paired(segment_urls, durations) ==
    /\ Current
    /\ Has(representation_ms_info, "fragments")
    /\ Len(representation_ms_info["fragments"]) = Len(segment_urls)
    /\ \A k \in 1..Len(segment_urls) :
           LET fragment == representation_ms_info["fragments"][k]
           IN /\ Location(fragment) = segment_urls[k]
              /\ IF IsNone(durations[k]) THEN ~Has(fragment, "duration")
                 ELSE /\ Has(fragment, "duration")
                      /\ fragment["duration"] = durations[k]

\* C4: Segment-URL + timeline pairing.  A video or audio Representation whose
\* context has segment URLs and a timeline whose sum of (1 + r) is the number
\* of URLs is processed to one fragment per URL, in list order, the URLs of an
\* S entry having the duration d / timescale of the entry.
C4_UrlTimelinePairing ==
    (/\ ReadVideoAudio
     /\ Has(Merged, "segment_urls")
     /\ Has(Merged, "s")
     /\ RepeatSum(Merged["s"]) = Len(Merged["segment_urls"])
     /\ Merged["timescale"] # 0) =>
        Paired(Merged["segment_urls"],
               [k \in 1..Len(Merged["segment_urls"]) |->
                   Some(Frac(EntryDurations(Merged["s"])[k], Merged["timescale"]))])

\* C5: Explicit segment URLs without a timeline.  A video or audio
\* Representation whose context has segment URLs and no timeline is processed
\* to one fragment per URL in list order, with the duration segment_duration /
\* timescale (timescale non-zero) when that is non-zero and no duration field
\* otherwise.
C5_UrlListDurations ==
    (/\ ReadVideoAudio
     /\ Has(Merged, "segment_urls")
     /\ ~Has(Merged, "s")
     /\ Merged["timescale"] # 0) =>
        Paired(Merged["segment_urls"],
               [k \in 1..Len(Merged["segment_urls"]) |->
                   IF Has(Merged, "segment_duration") /\ Merged["segment_duration"] # 0
                   THEN Some(Frac(Merged["segment_duration"], Merged["timescale"]))
                   ELSE None])

\* C6: DRM exclusion.  No descriptor of formats originates from a
\* Representation with a ContentProtection child or inside an AdaptationSet
\* with one; reading such a Representation leaves formats as it is, whatever
\* the Representation holds, and reading a video or audio Representation
\* without the marker appends its descriptor.
C6_DrmExclusion ==
    /\ [](\A i \in 1..Len(origin) : ~origin[i].protected)
    /\ [][read'.representations = read.representations + 1 =>
            /\ Val(representation').ContentProtection =>
                   (formats' = formats /\ pc' # "raised")
            /\ (VideoAudio' /\ pc' # "raised") =>
                   (Len(formats') = Len(formats) + 1 /\ Current')]_vars

\* a Representation with the marker, no mimeType and an S without d was read
\* after a sibling that was emitted, and parse returned the sibling alone
C6_Witness ==
    /\ pc = "returned"
    /\ read.representations = 2
    /\ Val(representation).ContentProtection
    /\ Val(representation).SegmentTemplate = Some(MalformedSource)
    /\ ~Has(Val(representation).attrib, "mimeType")
    /\ Len(formats) = 1
    /\ origin[1].representation = 1

\* C7: Id non-uniqueness.  parse leaves the override map as the caller gave
\* it; each video or audio Representation that is processed appends a
\* descriptor of its own, with the format_id of its id, and every field of that
\* descriptor is one that this Representation computed or one of the override
\* entry of the id.
C7_IdNonUniqueness ==
    [][/\ formats_dict' = formats_dict
       /\ (/\ read'.representations = read.representations + 1
           /\ VideoAudio'
           /\ pc' # "raised") =>
              LET id == Get(Update(Val(adaptation_set').attrib,
                                   Val(representation').attrib), "id")
                  entry == OverrideEntry(formats_dict, id)
                  d == formats'[Len(formats')]
              IN /\ formats' = Append(formats, d)
                 /\ d["format_id"] = FormatId(mpd_id, id)
                 /\ \A k \in DOMAIN d :
                        \/ k \in DOMAIN f' /\ d[k] = f'[k]
                        \/ k \in DOMAIN entry /\ d[k] = entry[k]]_vars

\* two Representations 480p of different AdaptationSets, the first fragmented
\* and the second direct: two descriptors of the same format_id, the second
\* with the fragments of the override entry and without the first's
\* fragment_base_url
C7_Witness ==
    /\ Len(formats) = 2
    /\ origin[1].adaptation_set # origin[2].adaptation_set
    /\ formats[1]["format_id"] = Some(Id480p)
    /\ formats[2]["format_id"] = Some(Id480p)
    /\ formats_dict = Overrides480p
    /\ Has(formats[1], "fragment_base_url")
    /\ ~Has(formats[2], "fragment_base_url")
    /\ formats[1]["fragments"] # Overrides480p[Some(Id480p)].fragments
    /\ formats[2]["fragments"] = Overrides480p[Some(Id480p)].fragments

\* C8: Override precedence.  Each field of an emitted descriptor that the
\* computed descriptor f defines has the value of f, each field that only the
\* override entry of the Representation id defines has the value of the entry,
\* and the descriptor has no other field.
C8_OverridePrecedence ==
    Current =>
        LET id == Get(Update(Val(adaptation_set).attrib, Val(representation).attrib), "id")
            entry == OverrideEntry(formats_dict, id)
            d == formats[Len(formats)]
        IN /\ DOMAIN d = (DOMAIN f) \cup (DOMAIN entry)
           /\ \A k \in DOMAIN f : d[k] = f[k]
           /\ \A k \in (DOMAIN entry) \ (DOMAIN f) : d[k] = entry[k]

\* the override entry of 480p defines url and preference, the descriptor
\* computes another url: the computed url and the preference of the entry
C8_Witness ==
    /\ Current
    /\ formats_dict = Overrides480p
    /\ Get(Val(representation).attrib, "id") = Some(Id480p)
    /\ f["url"] # Overrides480p[Some(Id480p)].url
    /\ formats[Len(formats)]["url"] = f["url"]
    /\ ~Has(f, "preference")
    /\ formats[Len(formats)]["preference"] = Some(1)

\* the BaseURL texts of the Representation, AdaptationSet, Period and Document
\* read last, the empty string where there is none
Texts ==
    [k \in 1..4 |->
        LET e == <<Val(representation), Val(adaptation_set), Val(period), mpd_doc>>[k]
        IN IF IsNone(e.BaseURL) THEN <<>> ELSE Val(e.BaseURL).text]

\* the texts of the levels 1..k, the topmost first
RECURSIVE Accumulated(_)
Accumulated(k) == IF k = 0 THEN <<>> ELSE Texts[k] \o Accumulated(k - 1)

\* the result of the walk: the accumulated text of the first level that makes
\* it absolute, of all four levels when none does
Walked ==
    LET stops == {k \in 1..4 : IsHttp(Accumulated(k))}
    IN IF stops = {} THEN Accumulated(4)
       ELSE Accumulated(CHOOSE k \in stops : \A j \in stops : k <= j)

\* C9: Base URL concatenation.  The base URL of a processed Representation is
\* the concatenation of the BaseURL texts from the first level (counted from
\* the Representation upwards) at which the accumulated text is http(s)
\* absolute down to the Representation, of all four levels when there is no
\* such level; a supplied manifest base URL only precedes a relative result.
C9_BaseUrlConcatenation ==
    Current =>
        base_url = (IF mpd_base_url # <<>> /\ ~IsHttp(Walked) THEN mpd_base_url ELSE <<>>)
                       \o Walked

\* seg/, a/, http://host/ and a Document BaseURL: http://host/a/seg/
C9_Witness ==
    /\ Current
    /\ Texts = <<<<"s", "e", "g", "/">>, <<"a", "/">>, HostUrl, HTTPS \o <<"d", "/">>>>
    /\ base_url = HostUrl \o <<"a", "/", "s", "e", "g", "/">>

\* C10: External base URL prefix.  For a video or audio Representation whose
\* walk result is not http(s) absolute and a non-empty supplied manifest base
\* URL, with or without a trailing '/', parse completes and the base URL is the
\* supplied one followed by the walk result; an absolute walk result is the
\* base URL as it is.
C10_ExternalPrefix ==
    (ReadVideoAudio /\ mpd_base_url # <<>>) =>
        /\ pc # "raised"
        /\ Current
        /\ base_url = IF IsHttp(Walked) THEN Walked ELSE mpd_base_url \o Walked

\* the text left-padded with zeros to the width
RECURSIVE ZeroPadded(_, _)
ZeroPadded(text, width) ==
    IF Len(text) >= width THEN text ELSE ZeroPadded(<<"0">> \o text, width)

\* what a $...$ span stands for: the escape $$, an identifier, an identifier
\* with the format tag %0<width>d; values gives the number of each identifier
SpanValue(span, values, dollar) ==
    IF span = <<>> THEN dollar
    ELSE IF span \in DOMAIN values THEN Decimal(values[span])
    ELSE LET id == CHOOSE x \in DOMAIN values : StartsWith(span, x \o <<"%", "0">>)
         IN ZeroPadded(Decimal(values[id]), DigitValue(span[Len(id) + 3]))

\* the template with every $...$ span replaced by what it stands for and every
\* other character, '%' included, as it is
RECURSIVE Rendered(_, _, _)
Rendered(t, values, dollar) ==
    IF t = <<>> THEN <<>>
    ELSE IF Head(t) # "$" THEN <<Head(t)>> \o Rendered(Tail(t), values, dollar)
    ELSE LET j == CHOOSE x \in 2..Len(t) : t[x] = "$" /\ \A y \in 2..(x - 1) : t[y] # "$"
         IN SpanValue(SubSeq(t, 2, j - 1), values, dollar)
                \o Rendered(SubSeq(t, j + 1, Len(t)), values, dollar)

\* the Representation read has a media template that is expanded against a
\* timeline
TemplateRead ==
    /\ ReadVideoAudio
    /\ Has(Merged, "media")
    /\ Has(Merged, "s")
    /\ ~Has(Merged, "segment_urls")

\* Number, Time and Bandwidth of the first fragment of the Representation read
FirstValues ==
    (NumberId :> Merged["start_number"])
        @@ (TimeId :> Merged["s"][1].t)
        @@ (BandwidthId :> Val(representation).attrib["bandwidth"])

\* the locator of the first media fragment
FirstLocator == Location(MediaFragments[1])

\* C11: Template percent escaping.  A template of literal text, literal '%'
\* and $...$ spans is expanded without failing; every '%' outside a span is in
\* the locator as one '%', and $Number$, $Time$, $Bandwidth$, also with a
\* format tag %0<width>d, are replaced by the values.  (The escape $$ is left
\* to C12: either rendering of it is accepted here.)
C11_PercentEscaping ==
    TemplateRead =>
        /\ Current
        /\ \/ FirstLocator = Rendered(Merged["media"], FirstValues, <<"$">>)
           \/ FirstLocator = Rendered(Merged["media"], FirstValues, <<"$", "$">>)

\* file%20-$Number$.mp4 with Number = 3: file%20-3.mp4
C11_Witness ==
    /\ TemplateRead
    /\ Current
    /\ Merged["media"] = FileTemplate
    /\ Merged["start_number"] = 3
    /\ FirstLocator = <<"f", "i", "l", "e", "%", "2", "0", "-", "3", ".", "m", "p", "4">>

\* C12: Dollar-escape collapse.  A media template is expanded to the locator
\* that has a single '$' wherever the template has the escape '$$'.
C12_DollarCollapse ==
    TemplateRead =>
        /\ Current
        /\ FirstLocator = Rendered(Merged["media"], FirstValues, <<"$">>)

\* the top-level category of the effective mimeType of the Representation and
\* the AdaptationSet read last, None when neither has a mimeType
Category ==
    LET attrib == Update(Val(adaptation_set).attrib, Val(representation).attrib)
    IN IF Has(attrib, "mimeType") THEN Some(ContentType(attrib["mimeType"])) ELSE None

\* the descriptors are in the order in which their Representations were read
InDocumentOrder ==
    /\ Len(origin) = Len(formats)
    /\ \A i, j \in 1..Len(origin) :
           i < j => origin[i].representation < origin[j].representation

\* C13: Output order and membership.  formats holds one descriptor for each
\* Representation read that is not DRM-excluded and whose effective mimeType
\* is video or audio, in the order of reading (Period, then AdaptationSet, then
\* Representation).  Reading such a Representation appends its descriptor
\* (unless parse fails on it); one of category text changes neither formats
\* nor the warnings; one of another category adds one warning and no
\* descriptor, and the walk goes on; nothing else changes formats or warns.
C13_OutputOrder ==
    /\ []InDocumentOrder
    /\ [][IF read'.representations = read.representations + 1
          THEN IF Val(representation').ContentProtection
               THEN formats' = formats /\ warnings' = warnings /\ pc' = pc
               ELSE IF Category' = None
               THEN formats' = formats /\ warnings' = warnings
               ELSE IF Category' = Some(<<"t", "e", "x", "t">>)
               THEN formats' = formats /\ warnings' = warnings /\ pc' = pc
               ELSE IF Category' \in {Some(<<"v", "i", "d", "e", "o">>),
                                      Some(<<"a", "u", "d", "i", "o">>)}
               THEN \/ pc' = "raised" /\ formats' = formats
                    \/ /\ pc' = pc
                       /\ warnings' = warnings
                       /\ formats' = Append(formats, formats'[Len(formats')])
                       /\ Current'
               ELSE /\ formats' = formats
                    /\ Len(warnings') = Len(warnings) + 1
                    /\ pc' = pc
          ELSE formats' = formats /\ warnings' = warnings]_vars

\* an image Representation, then a video one: one warning, and the descriptor
\* of the second Representation is returned
C13_Witness ==
    /\ pc = "returned"
    /\ read.representations = 2
    /\ Len(warnings) = 1
    /\ Len(formats) = 1
    /\ origin[1].representation = 2

\* the SegmentList child of the element, or, only without one, its
\* SegmentTemplate child
Child(element) ==
    IF ~IsNone(element.SegmentList) THEN element.SegmentList ELSE element.SegmentTemplate

FromList(element) == ~IsNone(element.SegmentList)

Nonempty(attr) == ~IsNone(attr) /\ Val(attr) # <<>>

\* the fields the child `source` supplies explicitly
SuppliedKeys(source, from_list) ==
    {k \in {"start_number"} : ~IsNone(source.startNumber)}
    \cup {k \in {"timescale"} : ~IsNone(source.timescale)}
    \cup {k \in {"segment_duration"} : ~IsNone(source.duration)}
    \cup {k \in {"total_number", "s"} : Nonempty(source.SegmentTimeline)}
    \cup {k \in {"segment_urls"} : from_list /\ source.SegmentURL # <<>>}
    \cup {k \in {"media"} : ~from_list /\ Nonempty(source.media)}
    \cup {k \in {"initialization"} : ~from_list /\ Nonempty(source.initialization)}
    \cup {k \in {"initialization_url"} :
            /\ ~IsNone(source.Initialization)
            /\ from_list \/ ~Nonempty(source.initialization)}

\* the sum of the r of the S elements, an absent r counting 0
RECURSIVE RepeatAttrs(_)
RepeatAttrs(s_e) ==
    IF s_e = <<>> THEN 0
    ELSE (IF IsNone(Head(s_e).r) THEN 0 ELSE Val(Head(s_e).r)) + RepeatAttrs(Tail(s_e))

\* the value the child `source` supplies for the field k
SuppliedValue(source, k) ==
    CASE k = "start_number" -> Val(source.startNumber)
      [] k = "timescale" -> Val(source.timescale)
      [] k = "segment_duration" -> Val(source.duration)
      [] k = "total_number" ->
            LET s_e == Val(source.SegmentTimeline)
            IN Len(s_e) + RepeatAttrs(s_e)
      [] k = "s" ->
            LET s_e == Val(source.SegmentTimeline)
            IN [j \in 1..Len(s_e) |->
                    [t |-> IF IsNone(s_e[j].t) THEN 0 ELSE Val(s_e[j].t),
                     d |-> Val(s_e[j].d),
                     r |-> IF IsNone(s_e[j].r) THEN 0 ELSE Val(s_e[j].r)]]
      [] k = "segment_urls" -> source.SegmentURL
      [] k = "media" -> Val(source.media)
      [] k = "initialization" -> Val(source.initialization)
      [] k = "initialization_url" -> Val(source.Initialization)

\* ms_info has every field of the parent context and every field the child
\* supplies, the child's value where it supplies one and the parent's elsewhere
Overlaid(ms_info, ms_parent_info, source, from_list) ==
    /\ DOMAIN ms_info = DOMAIN ms_parent_info \cup SuppliedKeys(source, from_list)
    /\ \A k \in DOMAIN ms_info :
        ms_info[k] = IF k \in SuppliedKeys(source, from_list)
                     THEN SuppliedValue(source, k) ELSE ms_parent_info[k]

Inherits(ms_info, ms_parent_info, element) ==
    /\ DOMAIN ms_parent_info \subseteq DOMAIN ms_info
    /\ IF IsNone(Child(element)) THEN ms_info = ms_parent_info
       ELSE Overlaid(ms_info, ms_parent_info, Val(Child(element)), FromList(element))
    /\ {"start_number", "timescale"} \subseteq DOMAIN ms_info

\* C14. Context inheritance: the context extract_multisegment_info returns for
\* a Period (from the seed), an AdaptationSet (from the Period context) and a
\* Representation (from the AdaptationSet context) has every field of the
\* parent context; a field has the value the node's SegmentList, or only
\* without a SegmentList its SegmentTemplate, supplies, and the parent's value
\* otherwise; a node with neither child gets the parent's context; and
\* start_number and timescale are present at every level, also in the context
\* of a Representation after its fragments were enumerated.
C14_ContextInheritance ==
    /\ [][read'.periods = read.periods + 1 /\ pc' # "raised"
            => Inherits(period_ms_info', SeedInfo, Val(period'))]_vars
    /\ [][read'.adaptation_sets = read.adaptation_sets + 1 /\ pc' = "representations"
            => Inherits(adaption_set_ms_info', period_ms_info, Val(adaptation_set'))]_vars
    /\ [][read'.representations = read.representations + 1
            => LET m == ExtractMultisegmentInfo(Val(representation'), adaption_set_ms_info)
               IN /\ m.err = "none" => Inherits(m.val, adaption_set_ms_info, Val(representation'))
                  /\ formats' # formats
                        => {"start_number", "timescale"} \subseteq DOMAIN representation_ms_info']_vars

\* An AdaptationSet with both children under a Period with both: the
\* SegmentList's start_number replaced the Period's, the SegmentTemplate's
\* media was not read, and the Period's timescale and segment URLs were kept.
C14_Witness ==
    /\ pc = "representations"
    /\ ~IsNone(Val(period).SegmentList)
    /\ ~IsNone(Val(adaptation_set).SegmentList) /\ ~IsNone(Val(adaptation_set).SegmentTemplate)
    /\ period_ms_info["start_number"] = 4
    /\ adaption_set_ms_info["start_number"] = 5
    /\ adaption_set_ms_info["timescale"] = 2
    /\ adaption_set_ms_info["segment_urls"] = <<<<"u">>>>
    /\ ~Has(adaption_set_ms_info, "media")

\* The merged context of the Representation read last matches none of the
\* addressing modes: no segment URLs, and no media template or one that does
\* not reference $Number$ while the context has no timeline.
NoAddressingMode ==
    /\ ~Has(Merged, "segment_urls")
    /\ \/ ~Has(Merged, "media")
       \/ /\ ~Contains(Merged["media"], <<"$">> \o NumberId)
          /\ ~Has(Merged, "s")

\* the descriptor has direct delivery at the resolved base URL
Direct(descriptor) ==
    /\ descriptor["url"] = Some(base_url)
    /\ ~Has(descriptor, "fragments")
    /\ ~Has(descriptor, "protocol") \/ descriptor["protocol"] # Some(HttpDashSegments)

\* C15. Soft fallback: a video or audio Representation whose merged context
\* has no segment URLs and either no media template, or a media template not
\* referencing $Number$ and no timeline, does not make parse fail: parse emits
\* a descriptor with direct delivery, url the resolved base URL, no fragments
\* and no http_dash_segments protocol.
C15_SoftFallback ==
    ReadVideoAudio /\ NoAddressingMode =>
        /\ pc # "raised"
        /\ Current
        /\ Direct(formats[Len(formats)])

\* the initialization URL of the merged context of the Representation read
\* last: its initialization template with $Bandwidth$ replaced, or without such
\* a template the sourceURL of Initialization as it is
InitializationUrl ==
    IF Has(Merged, "initialization")
    THEN Rendered(Merged["initialization"],
                  BandwidthId :> Val(representation).attrib["bandwidth"], <<"$", "$">>)
    ELSE Merged["initialization_url"]

\* the fragment is a locator and nothing else
LocatorOnly(fragment, location) ==
    /\ DOMAIN fragment \in {{"url"}, {"path"}}
    /\ \A k \in DOMAIN fragment : fragment[k] = location

\* C16. Initialization ordering: a descriptor with fragmented delivery whose
\* Representation context has an initialization URL (the @initialization
\* template expanded with Bandwidth, or the sourceURL of Initialization as it
\* is) has the initialization locator as the first element of its fragments,
\* without a duration and nowhere else in the list, followed by the media
\* fragments in the order of their enumeration; with an initialization but
\* neither a media template nor segment URLs the descriptor is direct and has
\* no fragments.
C16_InitializationOrdering ==
    ReadVideoAudio /\ Current
        /\ (Has(Merged, "initialization") \/ Has(Merged, "initialization_url")) =>
        LET descriptor == formats[Len(formats)]
        IN /\ Has(descriptor, "fragments") =>
                /\ descriptor["protocol"] = Some(HttpDashSegments)
                /\ descriptor["fragments"] # <<>>
                /\ LocatorOnly(descriptor["fragments"][1], InitializationUrl)
                /\ Tail(descriptor["fragments"]) = representation_ms_info["fragments"]
                /\ \A i \in 2..Len(descriptor["fragments"]) :
                        /\ descriptor["fragments"][i] # descriptor["fragments"][1]
                        /\ Has(descriptor["fragments"][i], "duration")
           /\ ~Has(Merged, "media") /\ ~Has(Merged, "segment_urls") => Direct(descriptor)
           /\ Has(Merged, "media") => Has(descriptor, "fragments")

\* the initialization template i$Bandwidth$ of the Period with bandwidth 5,
\* in front of the two fragments of the Period's timeline
C16_Witness ==
    /\ ReadVideoAudio
    /\ Current
    /\ Has(Merged, "initialization")
    /\ Merged["initialization"] = InitTemplate
    /\ Has(formats[Len(formats)], "fragments")
    /\ Len(formats[Len(formats)]["fragments"]) = 3
    /\ formats[Len(formats)]["fragments"][1] = ("path" :> <<"i", "5">>)
    /\ Location(formats[Len(formats)]["fragments"][2]) = <<"s", "3">>
    /\ Location(formats[Len(formats)]["fragments"][3]) = <<"s", "4">>

\* the fields parse computes for a Representation
Computed == {"fragments", "initialization_url", "total_number"}

\* C17. Sibling isolation: reading a Representation leaves the Period context
\* and the AdaptationSet context as they were, and reading an AdaptationSet
\* leaves the Period context as it was, so every sibling starts from the same
\* inherited context; the fragments, the expanded initialization_url and the
\* total_number parse computes are in the Representation's context only.
C17_SiblingIsolation ==
    /\ [][read'.representations = read.representations + 1
            => /\ period_ms_info' = period_ms_info
               /\ adaption_set_ms_info' = adaption_set_ms_info]_vars
    /\ [][read'.adaptation_sets = read.adaptation_sets + 1
            => period_ms_info' = period_ms_info]_vars
    /\ [](/\ ~Has(period_ms_info, "fragments")
          /\ ~Has(adaption_set_ms_info, "fragments"))

\* The second of two Representations in Number mode under a Period with an
\* initialization template: both contexts have the computed fields, the
\* AdaptationSet context has none of them.
C17_Witness ==
    /\ pc = "representations"
    /\ read.representations = 2
    /\ Len(formats) = 2
    /\ Has(adaption_set_ms_info, "initialization")
    /\ Computed \subseteq DOMAIN representation_ms_info
    /\ Computed \cap DOMAIN adaption_set_ms_info = {}
    /\ Has(formats[1], "fragments")
    /\ formats[1]["fragments"] = formats[2]["fragments"]
    /\ Len(formats[2]["fragments"]) = 5

====
